---- MODULE Spec2Model ----
(***************************************************************************)
(* Model of html_screenshot_analyzer_cli.py: main() drives one browser     *)
(* session over the entries of a directory, capturing a screenshot of each *)
(* entry whose name ends in ".html" and, with --use_ai, asking for a       *)
(* description of the screenshot and saving it.                            *)
(*                                                                         *)
(* File names are sequences of one-character strings, so that endswith and *)
(* str.replace are computed as Python computes them.                       *)
(***************************************************************************)
EXTENDS Integers, Sequences, FiniteSets, TLC

\* Largest number of entries os.listdir yields in a modelled run.
MaxFiles == 3

----------------------------------------------------------------------------
\* Strings

HtmlExt == <<".", "h", "t", "m", "l">>
PngExt == <<".", "p", "n", "g">>
TxtExt == <<".", "t", "x", "t">>

\* The directory entries a modelled run can meet.
DirEntries ==
    { <<"a">> \o HtmlExt,
      <<"b">> \o HtmlExt,
      <<"a">> \o HtmlExt \o HtmlExt,
      <<"a">> \o PngExt \o HtmlExt,
      <<"a">> \o TxtExt \o HtmlExt,
      <<"a">> \o HtmlExt \o <<".", "b">>,
      <<"a", "h", "t", "m", "l">>,
      <<"a">> \o PngExt }

\* str.endswith
EndsWith(s, suffix) ==
    /\ Len(s) >= Len(suffix)
    /\ SubSeq(s, Len(s) - Len(suffix) + 1, Len(s)) = suffix

\* str.replace(old, new): every non-overlapping occurrence, left to right.
RECURSIVE Replace(_, _, _)
Replace(s, old, new) ==
    IF Len(s) < Len(old) THEN s
    ELSE IF SubSeq(s, 1, Len(old)) = old
         THEN new \o Replace(SubSeq(s, Len(old) + 1, Len(s)), old, new)
         ELSE <<Head(s)>> \o Replace(Tail(s), old, new)

\* os.path.join(dir, name) for a name without a separator.
Join(dir, name) == <<dir, name>>

screenshots_dir == "screenshots"
explanations_dir == "explanations"

\* A variant that selects every name containing "html" at its end, dot or not.
IsHtml_NoDot(filename) == EndsWith(filename, <<"h", "t", "m", "l">>)

\* main: if filename.endswith(".html")
IsHtml(filename) == EndsWith(filename, HtmlExt)

\* main: screenshot_path
ScreenshotPath(filename) ==
    Join(screenshots_dir, Replace(filename, HtmlExt, PngExt))

\* main: explanation_path
ExplanationPath(filename) ==
    Join(explanations_dir, Replace(filename, HtmlExt, TxtExt))

\* Python None, for a local that holds a path otherwise.
None == <<>>

\* A variant that describes whenever the capture succeeded.
ShouldDescribe_NoFlag(shot, ai) == shot # None

\* main: if screenshot and args.use_ai
ShouldDescribe(shot, ai) == shot # None /\ ai

----------------------------------------------------------------------------
\* State

VARIABLES
    listing,        \* os.listdir(args.html_dir), in enumeration order
    use_ai,         \* args.use_ai
    pc,             \* position of main
    idx,            \* position of the for loop in listing
    driver,         \* "unset", "open" or "closed"
    sessions,       \* number of sessions setup_driver created
    quitCalls,      \* number of driver.quit() calls
    captureCalls,   \* file names passed to capture_screenshot, in order
    describeCalls,  \* file names whose screenshot was passed to describe
    writes,         \* files written, in order: [path, src]
    screenshot,     \* local of main: result of capture_screenshot
    explanation,    \* local of main: result of process_image_with_openai
    docState,       \* per entry of listing
    exc             \* exception that left main, "none" otherwise

vars == <<listing, use_ai, pc, idx, driver, sessions, quitCalls, captureCalls,
          describeCalls, writes, screenshot, explanation, docState, exc>>

RECURSIVE Listings(_)
Listings(n) ==
    IF n = 0 THEN { <<>> }
    ELSE Listings(n - 1) \cup
         { Append(l, e) : l \in { m \in Listings(n - 1) : Len(m) = n - 1 },
                          e \in DirEntries }

Distinct(l) == \A i, j \in 1..Len(l) : i # j => l[i] # l[j]

Init ==
    /\ listing \in { l \in Listings(MaxFiles) : Distinct(l) }
    /\ use_ai \in BOOLEAN
    /\ pc = "setup"
    /\ idx = 1
    /\ driver = "unset"
    /\ sessions = 0
    /\ quitCalls = 0
    /\ captureCalls = <<>>
    /\ describeCalls = <<>>
    /\ writes = <<>>
    /\ screenshot = None
    /\ explanation = "unset"
    /\ docState = [i \in 1..Len(listing) |->
                      IF IsHtml(listing[i]) THEN "Discovered" ELSE "Ignored"]
    /\ exc = "none"

----------------------------------------------------------------------------
\* main, step by step

\* setup_driver returns a driver.
LaunchOk ==
    /\ pc = "setup"
    /\ driver' = "open"
    /\ sessions' = sessions + 1
    /\ pc' = "loop"
    /\ UNCHANGED <<listing, use_ai, idx, quitCalls, captureCalls,
                   describeCalls, writes, screenshot, explanation, docState,
                   exc>>

\* A variant whose except branch falls through to the loop.
LaunchFails_NoReturn ==
    /\ pc = "setup"
    /\ pc' = "loop"
    /\ UNCHANGED <<listing, use_ai, idx, driver, sessions, quitCalls,
                   captureCalls, describeCalls, writes, screenshot,
                   explanation, docState, exc>>

\* setup_driver raises WebDriverException: main prints a notice and returns.
LaunchFails ==
    /\ pc = "setup"
    /\ pc' = "done"
    /\ UNCHANGED <<listing, use_ai, idx, driver, sessions, quitCalls,
                   captureCalls, describeCalls, writes, screenshot,
                   explanation, docState, exc>>

\* The loop meets an entry that is not selected.
SkipEntry ==
    /\ pc = "loop"
    /\ idx <= Len(listing)
    /\ ~IsHtml(listing[idx])
    /\ idx' = idx + 1
    /\ UNCHANGED <<listing, use_ai, pc, driver, sessions, quitCalls,
                   captureCalls, describeCalls, writes, screenshot,
                   explanation, docState, exc>>

\* The loop meets a selected entry and calls capture_screenshot.
CaptureBegin ==
    /\ pc = "loop"
    /\ idx <= Len(listing)
    /\ IsHtml(listing[idx])
    /\ captureCalls' = Append(captureCalls, listing[idx])
    /\ pc' = "capture"
    /\ UNCHANGED <<listing, use_ai, idx, driver, sessions, quitCalls,
                   describeCalls, writes, screenshot, explanation, docState,
                   exc>>

\* Where main goes once capture_screenshot has returned shot.
AfterCapture(shot) ==
    IF ShouldDescribe(shot, use_ai)
    THEN pc' = "describe" /\ idx' = idx
    ELSE pc' = "loop" /\ idx' = idx + 1

\* capture_screenshot: get and save_screenshot succeed, the path is returned.
CaptureOk ==
    /\ pc = "capture"
    /\ LET path == ScreenshotPath(listing[idx]) IN
        /\ writes' = Append(writes, [path |-> path, src |-> listing[idx]])
        /\ screenshot' = path
        /\ AfterCapture(path)
    /\ docState' = [docState EXCEPT ![idx] = "Captured"]
    /\ UNCHANGED <<listing, use_ai, driver, sessions, quitCalls, captureCalls,
                   describeCalls, explanation, exc>>

\* capture_screenshot: the driver raises, the error is logged, None returned.
CaptureFails ==
    /\ pc = "capture"
    /\ \E e \in {"WebDriverException", "TimeoutException"} :
        /\ screenshot' = None
        /\ AfterCapture(None)
    /\ docState' = [docState EXCEPT ![idx] = "CaptureFailed"]
    /\ UNCHANGED <<listing, use_ai, driver, sessions, quitCalls, captureCalls,
                   describeCalls, writes, explanation, exc>>

\* main calls process_image_with_openai(screenshot).
DescribeBegin ==
    /\ pc = "describe"
    /\ describeCalls' = Append(describeCalls, listing[idx])
    /\ pc' = "describing"
    /\ UNCHANGED <<listing, use_ai, idx, driver, sessions, quitCalls,
                   captureCalls, writes, screenshot, explanation, docState,
                   exc>>

\* process_image_with_openai returns the first candidate's text; main saves
\* it when it is not empty.
DescribeOk ==
    /\ pc = "describing"
    /\ \E text \in {"", "text"} :
        /\ explanation' = text
        /\ writes' = IF text # ""
                     THEN Append(writes,
                                 [path |-> ExplanationPath(listing[idx]),
                                  src |-> listing[idx]])
                     ELSE writes
    /\ docState' = [docState EXCEPT ![idx] = "Described"]
    /\ pc' = "loop"
    /\ idx' = idx + 1
    /\ UNCHANGED <<listing, use_ai, driver, sessions, quitCalls, captureCalls,
                   describeCalls, screenshot, exc>>

\* process_image_with_openai raises (the service call fails, or the response
\* has no first candidate); nothing in main catches it.
DescribeRaises ==
    /\ pc = "describing"
    /\ \E e \in {"ServiceError", "IndexError"} : exc' = e
    /\ docState' = [docState EXCEPT ![idx] = "DescribeFailed"]
    /\ pc' = "crashed"
    /\ UNCHANGED <<listing, use_ai, idx, driver, sessions, quitCalls,
                   captureCalls, describeCalls, writes, screenshot,
                   explanation>>

\* A variant with driver.quit() inside the loop body.
Quit_InLoop ==
    /\ pc = "loop"
    /\ driver = "open"
    /\ driver' = "closed"
    /\ quitCalls' = quitCalls + 1
    /\ pc' = IF idx > Len(listing) THEN "done" ELSE "loop"
    /\ UNCHANGED <<listing, use_ai, idx, sessions, captureCalls,
                   describeCalls, writes, screenshot, explanation, docState,
                   exc>>

\* The loop is exhausted: driver.quit().
Quit ==
    /\ pc = "loop"
    /\ idx > Len(listing)
    /\ driver' = "closed"
    /\ quitCalls' = quitCalls + 1
    /\ pc' = "done"
    /\ UNCHANGED <<listing, use_ai, idx, sessions, captureCalls,
                   describeCalls, writes, screenshot, explanation, docState,
                   exc>>

Next ==
    \/ LaunchOk
    \/ LaunchFails
    \/ SkipEntry
    \/ CaptureBegin
    \/ CaptureOk
    \/ CaptureFails
    \/ DescribeBegin
    \/ DescribeOk
    \/ DescribeRaises
    \/ Quit

Spec == Init /\ [][Next]_vars

TypeOK ==
    /\ Len(listing) <= MaxFiles
    /\ pc \in {"setup", "loop", "capture", "describe", "describing", "done",
               "crashed"}
    /\ idx \in 1..(Len(listing) + 1)
    /\ driver \in {"unset", "open", "closed"}

----------------------------------------------------------------------------
\* Vocabulary of the properties

Terminated == pc \in {"done", "crashed"}

Last(s) == s[Len(s)]

\* The name's last five characters are ".html".
HasHtmlExtension(name) ==
    /\ Len(name) >= 5
    /\ name[Len(name) - 4] = "."
    /\ name[Len(name) - 3] = "h"
    /\ name[Len(name) - 2] = "t"
    /\ name[Len(name) - 1] = "m"
    /\ name[Len(name)] = "l"

\* The name with its last five characters dropped and ext put in their place.
ExtensionReplacedOnce(name, ext) ==
    [k \in 1..(Len(name) - 5 + Len(ext)) |->
        IF k <= Len(name) - 5 THEN name[k] ELSE ext[k - (Len(name) - 5)]]

CaptureInvokedOn(name) == \E k \in 1..Len(captureCalls) : captureCalls[k] = name

ScreenshotWrittenFor(name) ==
    \E k \in 1..Len(writes) :
        writes[k].path[1] = screenshots_dir /\ writes[k].src = name

ExplanationWrittenFor(name) ==
    \E k \in 1..Len(writes) :
        writes[k].path[1] = explanations_dir /\ writes[k].src = name

CapturesEnded ==
    Cardinality({i \in DOMAIN docState :
                    docState[i] \notin {"Discovered", "Ignored"}})

DescribesEnded ==
    Cardinality({i \in DOMAIN docState :
                    docState[i] \in {"Described", "DescribeFailed"}})

OperationsInProgress ==
    (Len(captureCalls) - CapturesEnded) + (Len(describeCalls) - DescribesEnded)

TerminalStates ==
    {"CaptureFailed", "Described", "DescribeFailed"}
        \cup (IF use_ai THEN {} ELSE {"Captured"})

----------------------------------------------------------------------------
\* Properties

\* C1: a describe failure is contained at the file boundary: the screenshot
\* of the file stays in place, no explanation file is written for it, no
\* exception leaves main and the run is not cut short.
C1_DescribeFailureContained ==
    \A i \in DOMAIN docState :
        docState[i] = "DescribeFailed" =>
            /\ ScreenshotWrittenFor(listing[i])
            /\ ~ExplanationWrittenFor(listing[i])
            /\ exc = "none"
            /\ pc # "crashed"

\* C2: when the run has ended, driver.quit() has been called exactly once if
\* a session was opened and not at all if the launch failed.
C2_ReleasedOncePerSession ==
    /\ quitCalls <= sessions
    /\ Terminated => quitCalls = sessions

\* C3: a capture failure never aborts the batch: no capture error leaves
\* main, and when the run has ended capture has been invoked on every
\* selected entry that comes after an entry whose capture failed.
C3_CaptureFailureNeverAborts ==
    /\ exc \notin {"WebDriverException", "TimeoutException"}
    /\ Terminated =>
        \A i \in DOMAIN docState : docState[i] = "CaptureFailed" =>
            \A j \in (i + 1)..Len(listing) :
                HasHtmlExtension(listing[j]) => CaptureInvokedOn(listing[j])

\* C4: with AI mode disabled the describe operation is never invoked and no
\* explanation file is written, in every state of the run.
C4_NoDescribeWithoutAI ==
    ~use_ai =>
        /\ describeCalls = <<>>
        /\ \A k \in 1..Len(writes) : writes[k].path[1] # explanations_dir

C4_Witness ==
    /\ ~use_ai
    /\ pc = "done"
    /\ \E i \in DOMAIN docState : docState[i] = "Captured"

\* C5: if the launch fails the run ends without processing any file: no
\* capture, no describe, no file written.
C5_LaunchFailureProcessesNothing ==
    (sessions = 0 /\ pc # "setup") =>
        /\ pc = "done"
        /\ captureCalls = <<>>
        /\ describeCalls = <<>>
        /\ writes = <<>>
        /\ \A i \in DOMAIN docState : docState[i] \in {"Discovered", "Ignored"}

C5_Witness ==
    /\ sessions = 0
    /\ pc = "done"
    /\ \E i \in DOMAIN docState : HasHtmlExtension(listing[i])

\* C6: every screenshot is written at the path obtained from the input name
\* by replacing only the trailing ".html" by ".png".
C6_ExtensionReplacedOnce ==
    \A k \in 1..Len(writes) :
        writes[k].path[1] = screenshots_dir =>
            writes[k].path[2] = ExtensionReplacedOnce(writes[k].src, PngExt)

\* C7: capture is never invoked on an entry whose name does not end in
\* ".html", and in a run that launched and ran to its end it has been invoked
\* on every entry whose name does.
C7_OnlyHtmlSelected ==
    /\ \A k \in 1..Len(captureCalls) : HasHtmlExtension(captureCalls[k])
    /\ (pc = "done" /\ sessions = 1) =>
        \A i \in 1..Len(listing) :
            HasHtmlExtension(listing[i]) => CaptureInvokedOn(listing[i])

C7_Witness ==
    /\ pc = "done"
    /\ sessions = 1
    /\ \E i, j \in 1..Len(listing) :
        /\ HasHtmlExtension(listing[i])
        /\ CaptureInvokedOn(listing[i])
        /\ ~HasHtmlExtension(listing[j])
        /\ EndsWith(listing[j], <<"h", "t", "m", "l">>)

\* C8: once the session has launched, the run ends normally with every
\* discovered document in a terminal state, none left in Discovered.
C8_EveryDocumentTerminal ==
    (sessions = 1 /\ Terminated) =>
        /\ pc = "done"
        /\ \A i \in DOMAIN docState :
            HasHtmlExtension(listing[i]) => docState[i] \in TerminalStates

\* C9: processing is strictly sequential: describe is invoked only on the
\* file whose capture has just succeeded and before any further capture, at
\* most one capture or describe is in progress, and no capture is invoked
\* once the session has been released.
C9_StrictlySequential ==
    [][/\ describeCalls' # describeCalls =>
            /\ captureCalls # <<>>
            /\ describeCalls' = Append(describeCalls, Last(captureCalls))
            /\ captureCalls' = captureCalls
            /\ ScreenshotWrittenFor(Last(captureCalls))
            /\ ~\E k \in 1..Len(describeCalls) :
                    describeCalls[k] = Last(captureCalls)
            /\ OperationsInProgress = 0
       /\ captureCalls' # captureCalls =>
            /\ driver = "open"
            /\ quitCalls = 0
            /\ OperationsInProgress = 0
       /\ OperationsInProgress' \in {0, 1}
       /\ Len(describeCalls') <= Len(captureCalls')]_vars

C9_Witness ==
    /\ pc = "done"
    /\ quitCalls = 1
    /\ Len(captureCalls) >= 2
    /\ Len(describeCalls) >= 2

\* C10: two distinct selected input names that main has processed never share
\* a screenshot path or an explanation path, so no artifact is overwritten by
\* another document's.
C10_PathsCollisionFree ==
    /\ \A i, j \in 1..Len(listing) :
        (/\ i # j
         /\ HasHtmlExtension(listing[i]) /\ CaptureInvokedOn(listing[i])
         /\ HasHtmlExtension(listing[j]) /\ CaptureInvokedOn(listing[j]))
            => /\ ScreenshotPath(listing[i]) # ScreenshotPath(listing[j])
               /\ ExplanationPath(listing[i]) # ExplanationPath(listing[j])
    /\ \A k1, k2 \in 1..Len(writes) :
        writes[k1].path = writes[k2].path => writes[k1].src = writes[k2].src

====
